---- MODULE Spec2Model ----
(***************************************************************************)
(* Model of initialize.py: the ingestion pipeline behind initialize().      *)
(*                                                                         *)
(* Text.  A Python str is a sequence of characters; a character is a       *)
(* one-element token (a TLA+ string).  Japanese characters are written in  *)
(* romanised form, one token per character ("sha","in","mei","bo" is the   *)
(* roster word of the file-name test).  The fixed phrases that the         *)
(* synthesizers print are single tokens: their length never matters,       *)
(* because tabular documents are never measured by the splitter.           *)
(***************************************************************************)
EXTENDS Integers, Sequences, FiniteSets, TLC

VARIABLES
    tree,            \* the filesystem: directory path -> os.listdir result
    registry,        \* ct.SUPPORTED_EXTENSIONS: extension -> capability
    session_state,   \* st.session_state: key -> value
    handlers,        \* handlers attached to the application logger
    next_uuid,       \* number of uuid4() values drawn so far
    pc,              \* "idle" between calls, "load" inside load_data_sources
    stack,           \* pending recursive_file_check(path, docs_all) calls
    docs_all,        \* the accumulator of load_data_sources
    web_docs_all,    \* the web accumulator of load_data_sources
    url_i,           \* index of the next URL of WEB_URL_LOAD_TARGETS
    log,             \* error records written through logger.error in this call
    visited,         \* history: paths handed to file_load in this call
    fetched,         \* history: the fetches of this call, each with its result
    outcome,         \* how the last initialize() ended
    df,              \* synthesizer check: the table read from a CSV
    file_name,       \* synthesizer check: the CSV's base name
    content          \* synthesizer check: the synthesized passage

vars == <<tree, registry, session_state, handlers, next_uuid, pc, stack,
          docs_all, web_docs_all, url_i, log, visited, fetched, outcome,
          df, file_name, content>>

pipeVars == <<tree, registry, session_state, handlers, next_uuid, pc, stack,
              docs_all, web_docs_all, url_i, log, visited, fetched, outcome>>

synthVars == <<df, file_name, content>>

(***************************************************************************)
(* Bounds                                                                  *)
(***************************************************************************)
MaxEntries == 2      \* entries in the root directory's listing
MaxUrls == 2         \* URLs in WEB_URL_LOAD_TARGETS
MaxRows == 3         \* rows of a table handed to a synthesizer

(***************************************************************************)
(* Generic sequence helpers                                                *)
(***************************************************************************)
Range(s) == {s[i] : i \in 1..Len(s)}

RECURSIVE Flatten(_)
Flatten(ss) == IF ss = <<>> THEN <<>> ELSE Head(ss) \o Flatten(Tail(ss))

RECURSIVE SumSeq(_)
SumSeq(s) == IF s = <<>> THEN 0 ELSE Head(s) + SumSeq(Tail(s))

\* Injective sequences over S of length at most n
RECURSIVE InjSeqs(_, _)
InjSeqs(S, n) ==
    IF n = 0 THEN {<<>>}
    ELSE LET shorter == InjSeqs(S, n - 1)
         IN  shorter \cup
             {Append(p[1], p[2]) :
                p \in {q \in shorter \X S : Len(q[1]) = n - 1 /\ q[2] \notin Range(q[1])}}

\* All sequences over S of length at most n
RECURSIVE SeqsUpTo(_, _)
SeqsUpTo(S, n) ==
    IF n = 0 THEN {<<>>}
    ELSE LET shorter == SeqsUpTo(S, n - 1)
         IN  shorter \cup
             {Append(p[1], p[2]) : p \in {q \in shorter \X S : Len(q[1]) = n - 1}}

(***************************************************************************)
(* Python str operations                                                   *)
(***************************************************************************)
NL == "\n"
Whitespace == {" ", NL, "\t"}
Digits == <<"0", "1", "2", "3", "4", "5", "6", "7", "8", "9">>

\* sep.join(parts)
RECURSIVE join(_, _)
join(parts, sep) ==
    IF parts = <<>> THEN <<>>
    ELSE IF Len(parts) = 1 THEN parts[1]
    ELSE parts[1] \o sep \o join(Tail(parts), sep)

\* s.find(c): the first index of character c in s, 0 when absent
find(s, c) ==
    IF \E i \in 1..Len(s) : s[i] = c
    THEN CHOOSE i \in 1..Len(s) : s[i] = c /\ \A j \in 1..(i - 1) : s[j] # c
    ELSE 0

\* s.rfind(c): the last index of character c in s, 0 when absent
rfind(s, c) ==
    IF \E i \in 1..Len(s) : s[i] = c
    THEN CHOOSE i \in 1..Len(s) : s[i] = c /\ \A j \in (i + 1)..Len(s) : s[j] # c
    ELSE 0

\* re.split on a one-character separator: the pieces, empty ones included
RECURSIVE split(_, _)
split(s, c) ==
    LET i == find(s, c)
    IN  IF i = 0 THEN <<s>>
        ELSE <<SubSeq(s, 1, i - 1)>> \o split(SubSeq(s, i + 1, Len(s)), c)

\* s.strip()
RECURSIVE lstrip(_)
lstrip(s) == IF s # <<>> /\ Head(s) \in Whitespace THEN lstrip(Tail(s)) ELSE s

RECURSIVE rstrip(_)
rstrip(s) ==
    IF s # <<>> /\ s[Len(s)] \in Whitespace THEN rstrip(SubSeq(s, 1, Len(s) - 1)) ELSE s

strip(s) == rstrip(lstrip(s))

\* str(n) for a natural number: its decimal digits
RECURSIVE str_int(_)
str_int(n) ==
    IF n < 10 THEN <<Digits[n + 1]>> ELSE str_int(n \div 10) \o <<Digits[(n % 10) + 1]>>

\* needle in hay (substring test)
contains(hay, needle) ==
    \E i \in 0..(Len(hay) - Len(needle)) : SubSeq(hay, i + 1, i + Len(needle)) = needle

\* c.lower() for one character
lower_char(c) ==
    CASE c = "A" -> "a" [] c = "B" -> "b" [] c = "C" -> "c" [] c = "D" -> "d"
      [] c = "E" -> "e" [] c = "F" -> "f" [] c = "G" -> "g" [] c = "H" -> "h"
      [] c = "I" -> "i" [] c = "J" -> "j" [] c = "K" -> "k" [] c = "L" -> "l"
      [] c = "M" -> "m" [] c = "N" -> "n" [] c = "O" -> "o" [] c = "P" -> "p"
      [] c = "Q" -> "q" [] c = "R" -> "r" [] c = "S" -> "s" [] c = "T" -> "t"
      [] c = "U" -> "u" [] c = "V" -> "v" [] c = "W" -> "w" [] c = "X" -> "x"
      [] c = "Y" -> "y" [] c = "Z" -> "z" [] OTHER -> c

\* s.lower()
lower(s) == [i \in 1..Len(s) |-> lower_char(s[i])]

\* Unicode code points of the characters that occur in grouping keys
CodePoint(c) ==
    CASE c = " " -> 32 [] c = "a" -> 97 [] c = "b" -> 98
      [] c = "ji" -> 20107      \* U+4E8B
      [] c = "jin" -> 20154     \* U+4EBA
      [] c = "ei" -> 21942      \* U+55B6
      [] c = "gyou" -> 26989    \* U+696D
      [] c = "bu" -> 37096      \* U+90E8

\* a < b for Python str: lexicographic by code point
RECURSIVE str_less(_, _)
str_less(a, b) ==
    IF b = <<>> THEN FALSE
    ELSE IF a = <<>> THEN TRUE
    ELSE IF Head(a) # Head(b) THEN CodePoint(Head(a)) < CodePoint(Head(b))
    ELSE str_less(Tail(a), Tail(b))

\* the distinct elements of s, in order of first appearance (Series.unique)
RECURSIVE unique(_)
unique(s) ==
    IF s = <<>> THEN <<>>
    ELSE LET front == unique(SubSeq(s, 1, Len(s) - 1))
         IN  IF s[Len(s)] \in Range(front) THEN front ELSE Append(front, s[Len(s)])

(***************************************************************************)
(* Tables (pandas DataFrame as read by pd.read_csv)                        *)
(*   df.columns : sequence of column names                                 *)
(*   df.rows    : sequence of rows, a row being one cell per column        *)
(*   a cell is NaN, or a str                                               *)
(***************************************************************************)
NaN == [na |-> TRUE, s |-> <<>>]
Cell(s) == [na |-> FALSE, s |-> s]

DEPT_COLUMN == <<"juu", "gyou", "in", "ku", "bun">>      \* 'U+5F93 U+696D U+54E1 U+533A U+5206'
NAME_COLUMN == <<"shi", "mei">>                          \* 'U+6C0F U+540D'
HR_DEPT == <<"jin", "ji", "bu">>                         \* 'U+4EBA U+4E8B U+90E8'
SALES_DEPT == <<"ei", "gyou", "bu">>                     \* 'U+55B6 U+696D U+90E8'
ROSTER_WORD == <<"sha", "in", "mei", "bo">>              \* "U+793E U+54E1 U+540D U+7C3F"
EMPLOYEE_WORD == <<"juu", "gyou", "in">>                 \* "U+5F93 U+696D U+54E1"

\* len(df)
len_df(d) == Len(d.rows)

\* row[col]
at(d, row, col) == row[CHOOSE j \in 1..Len(d.columns) : d.columns[j] = col]

\* pd.notna(row[col]) and str(row[col]).strip()
present(cell) == ~cell.na /\ strip(cell.s) # <<>>

\* the "col<sep>value" entries of one row over the columns cols, absent cells skipped
fields(d, row, cols, sep) ==
    LET keep == SelectSeq(cols, LAMBDA col : present(at(d, row, col)))
    IN  [k \in 1..Len(keep) |-> keep[k] \o sep \o at(d, row, keep[k]).s]

COMMA == <<",", " ">>

(***************************************************************************)
(* create_generic_csv_document                                             *)
(***************************************************************************)
\* variant of generic_row_lines that numbers the emitted lines with a running counter
generic_row_lines_counter(d) ==
    LET filled == SelectSeq([i \in 1..len_df(d) |-> i],
                     LAMBDA i : fields(d, d.rows[i], d.columns, <<":", " ">>) # <<>>)
    IN  [k \in 1..Len(filled) |->
            str_int(k) \o <<".", " ">>
                \o join(fields(d, d.rows[filled[k]], d.columns, <<":", " ">>), COMMA)]

\* the numbered lines of the data section: one per row that has a present cell,
\* numbered index + 1 with index the row's position in the table
generic_row_lines(d) ==
    Flatten([i \in 1..len_df(d) |->
        LET row_info == fields(d, d.rows[i], d.columns, <<":", " ">>)
        IN  IF row_info # <<>>
            THEN << str_int((i - 1) + 1) \o <<".", " ">> \o join(row_info, COMMA) >>
            ELSE <<>>])

create_generic_csv_document(d, name) ==
    LET content_parts ==
            << <<"[[">> \o name \o <<"]]">>,
               <<"data-kensuu", ":", " ">> \o str_int(len_df(d)) \o <<"ken">>,
               <<"koumoku-suu", ":", " ">> \o str_int(Len(d.columns)) \o <<"koumoku">>,
               <<>>,
               <<"[[data-koumoku]]">>,
               join(d.columns, COMMA),
               <<>>,
               <<"[[data-naiyou]]">> >>
            \o generic_row_lines(d)
    IN  join(content_parts, <<NL>>)

(***************************************************************************)
(* create_employee_document                                                *)
(***************************************************************************)
has_dept(d) == DEPT_COLUMN \in Range(d.columns)

\* variant of dept_keys that keeps the null key (groupby with dropna=False)
dept_keys_with_null(d) ==
    LET col == [i \in 1..len_df(d) |-> at(d, d.rows[i], DEPT_COLUMN)]
    IN  SortSeq(unique([i \in 1..Len(col) |-> col[i].s]), str_less)

\* df.groupby(DEPT_COLUMN): the non-null keys in ascending order, each with its rows
dept_keys(d) ==
    LET col == [i \in 1..len_df(d) |-> at(d, d.rows[i], DEPT_COLUMN)]
        nonnull == SelectSeq(col, LAMBDA c : ~c.na)
    IN  SortSeq(unique([i \in 1..Len(nonnull) |-> nonnull[i].s]), str_less)

dept_rows(d, dept_name) ==
    SelectSeq(d.rows, LAMBDA row : at(d, row, DEPT_COLUMN) = Cell(dept_name))

\* section 2: one group per department
dept_section(d) ==
    IF has_dept(d)
    THEN << <<"[[busho-betsu juugyouin shousai jouhou]]">> >>
         \o Flatten([g \in 1..Len(dept_keys(d)) |->
              LET dept_name == dept_keys(d)[g]
                  dept_df == dept_rows(d, dept_name)
                  others == SelectSeq(d.columns, LAMBDA col : col # DEPT_COLUMN)
              IN  << <<NL, "#", " ">> \o dept_name \o <<"bumon", " ", "(">>
                        \o str_int(Len(dept_df)) \o <<"mei", ")">>,
                     dept_name \o <<"ni shozoku shiteiru juugyouin ichiran", ":">> >>
                  \o Flatten([idx \in 1..Len(dept_df) |->
                       LET employee_details == fields(d, dept_df[idx], others, <<":">>)
                       IN  IF employee_details # <<>>
                           THEN << <<" ", " ">> \o str_int(idx) \o <<".", " ">>
                                     \o join(employee_details, COMMA) >>
                           ELSE <<>>])])
         \o << <<>> >>
    ELSE <<>>

\* section 3: the rows whose department is exactly HR_DEPT
hr_section(d) ==
    LET hr_employees == IF has_dept(d) THEN dept_rows(d, HR_DEPT) ELSE <<>>
    IN  IF hr_employees # <<>>
        THEN << <<"[[jinjibu shozoku juugyouin no kanzen ichiran]]">>,
                <<"jinjibu niwa">> \o str_int(Len(hr_employees))
                    \o <<"mei no juugyouin ga shozoku shiteimasu.">>,
                <<"jinjibu member shousai", ":">> >>
             \o Flatten([idx \in 1..Len(hr_employees) |->
                  LET hr_details == fields(d, hr_employees[idx], d.columns, <<":">>)
                  IN  IF hr_details # <<>>
                      THEN << <<"jinji-buin">> \o str_int(idx) \o <<":", " ">>
                                \o join(hr_details, COMMA) >>
                      ELSE <<>>])
             \o << <<>> >>
        ELSE <<>>

\* section 4: every row, numbered index + 1
all_section(d) ==
    << <<"[[zen-juugyouin tougou data]]">>, <<"shanai no zen-juugyouin jouhou", ":">> >>
    \o Flatten([i \in 1..len_df(d) |->
         LET employee_info == fields(d, d.rows[i], d.columns, <<":">>)
         IN  IF employee_info # <<>>
             THEN << <<"shain">> \o str_int((i - 1) + 1) \o <<":", " ">>
                       \o join(employee_info, COMMA) >>
             ELSE <<>>])

BASE_KEYWORDS ==
    << <<"juugyouin-jouhou">>, <<"shain-meibo">>, <<"jinjibu">>, <<"shain-ichiran">>,
       <<"juugyouin-ichiran">>, <<"shain-data">>, <<"jinji-data">>, <<"shain-jouhou">>,
       <<"juugyouin-database">>, <<"shain-list">>, <<"juugyouin-list">>,
       <<"jinji-jouhou">>, <<"shain-daichou">> >>

\* section 5: the keyword footer
keyword_section(d) ==
    LET col == IF has_dept(d)
               THEN [i \in 1..len_df(d) |-> at(d, d.rows[i], DEPT_COLUMN)]
               ELSE <<>>
        dropna == SelectSeq(col, LAMBDA c : ~c.na)
        unique_depts == unique([i \in 1..Len(dropna) |-> dropna[i].s])
        keywords == BASE_KEYWORDS
            \o Flatten([k \in 1..Len(unique_depts) |->
                 << unique_depts[k], unique_depts[k] \o <<"bu">>,
                    unique_depts[k] \o <<"shozoku">>,
                    unique_depts[k] \o <<"no juugyouin">> >>])
    IN  << <<NL, "[[kensaku saitekika keyword]]">>,
           <<"kanren keyword", ":", " ">> \o join(keywords, COMMA) >>

create_employee_document(d, name) ==
    LET content_parts ==
            << <<"[[">> \o name \o <<" - shain-meibo/juugyouin-ichiran/jinji-database]]">>,
               <<"zen-shain-suu", ":", " ">> \o str_int(len_df(d))
                   \o <<"mei no juugyouin jouhou">>,
               <<>> >>
            \o dept_section(d) \o hr_section(d) \o all_section(d) \o keyword_section(d)
    IN  join(content_parts, <<NL>>)

\* the filename heuristic of file_load
is_roster_name(name) == contains(name, ROSTER_WORD) \/ contains(name, EMPLOYEE_WORD)

synthesize(d, name) ==
    IF is_roster_name(name)
    THEN create_employee_document(d, name)
    ELSE create_generic_csv_document(d, name)

(***************************************************************************)
(* Paths (os.path)                                                         *)
(***************************************************************************)
RAG_TOP_FOLDER_PATH == <<".", "/", "d", "a", "t", "a">>

\* os.path.join(path, file)
path_join(path, file) == path \o <<"/">> \o file

\* os.path.basename(path)
basename(path) == SubSeq(path, rfind(path, "/") + 1, Len(path))

\* os.path.splitext(path)[1]: from the last dot of the last component, unless that
\* component has nothing but dots before it
splitext_ext(path) ==
    LET sepIndex == rfind(path, "/")
        dotIndex == rfind(path, ".")
    IN  IF dotIndex > sepIndex
           /\ \E k \in (sepIndex + 1)..(dotIndex - 1) : path[k] # "."
        THEN SubSeq(path, dotIndex, Len(path))
        ELSE <<>>

(***************************************************************************)
(* Documents (langchain Document): page_content and metadata.  A metadata  *)
(* value is a str or an int; adjust_string tells them apart by type.       *)
(***************************************************************************)
StrV(s) == [t |-> "str", v |-> s]
IntV(n) == [t |-> "int", v |-> n]
None == [t |-> "none", v |-> 0]

Document(page_content, metadata) == [page_content |-> page_content, metadata |-> metadata]

\* metadata.get(key)
get(metadata, key) == IF key \in DOMAIN metadata THEN metadata[key] ELSE None

CSV_TYPE == <<"c", "s", "v">>

(***************************************************************************)
(* The files that can be on disk, by base name, and what reading them does *)
(***************************************************************************)
CSV_EXT == <<".", "c", "s", "v">>
PDF_EXT == <<".", "p", "d", "f">>
TXT_EXT == <<".", "t", "x", "t">>
DOCX_EXT == <<".", "d", "o", "c", "x">>

ROSTER_CSV == ROSTER_WORD \o <<".", "c", "s", "v">>      \* a roster, lower-case extension
DATA_CSV == <<"d", ".", "C", "S", "V">>                  \* a generic table, upper-case
BAD_CSV == <<"x", ".", "c", "s", "v">>                   \* not valid utf-8
B_PDF == <<"b", ".", "P", "d", "f">>                     \* two pages, mixed case
N_TXT == <<"n", ".", "t", "x", "t">>
C_DOCX == <<"c", ".", "d", "o", "c", "x">>
SUB_DIR == <<"s", "u", "b">>

FileNames == {ROSTER_CSV, DATA_CSV, BAD_CSV, B_PDF, N_TXT, C_DOCX}

ROSTER_TABLE ==
    [columns |-> <<NAME_COLUMN, DEPT_COLUMN>>,
     rows |-> << <<Cell(<<"a", "emoji">>), Cell(SALES_DEPT)>>,
                 <<Cell(<<"b">>), Cell(HR_DEPT)>>,
                 <<NaN, Cell(HR_DEPT)>> >>]

DATA_TABLE ==
    [columns |-> <<NAME_COLUMN>>,
     rows |-> << <<Cell(<<"ka", "dakuten">>)>>, <<NaN>>, <<Cell(<<"b">>)>> >>]

PDF_PAGES == << <<"a", NL, "b", "c", NL, "ka", "dakuten">>,
                <<"d", "e", NL, "emoji", "f", NL, "g">> >>

TXT_TEXT == <<"h", NL, "i", "j", "k", "l", "m", NL, "n">>

\* pd.read_csv(path, encoding='utf-8'): the table, or an exception
read_csv(path) ==
    LET name == basename(path)
    IN  CASE name = ROSTER_CSV -> [raises |-> FALSE, df |-> ROSTER_TABLE]
          [] name = DATA_CSV -> [raises |-> FALSE, df |-> DATA_TABLE]
          [] OTHER -> [raises |-> TRUE, df |-> [columns |-> <<>>, rows |-> <<>>]]

\* loader_func(path).load(): the loader's documents, or an exception.  A PDF loader
\* gives one document per page with its own 0-based page; a text loader one document.
loader_load(loader_func, path) ==
    LET name == basename(path)
    IN  IF loader_func = "raising" THEN [raises |-> TRUE, docs |-> <<>>]
        ELSE CASE name = B_PDF ->
                    [raises |-> FALSE,
                     docs |-> [i \in 1..Len(PDF_PAGES) |->
                                 Document(PDF_PAGES[i],
                                          [source |-> StrV(path), page |-> IntV(i - 1)])]]
               [] name = N_TXT ->
                    [raises |-> FALSE,
                     docs |-> << Document(TXT_TEXT, [source |-> StrV(path)]) >>]
               [] OTHER -> [raises |-> TRUE, docs |-> <<>>]

\* callable(loader_func)
callable(loader_func) == loader_func # "not-callable"

\* ct.SUPPORTED_EXTENSIONS as configured: the plain table, and a misconfigured one
\* (a text loader whose construction raises, a .docx entry that is not a function)
REGISTRY_PLAIN ==
    (PDF_EXT :> "loader") @@ (TXT_EXT :> "loader") @@ (CSV_EXT :> "loader")
REGISTRY_MISCONFIGURED ==
    (PDF_EXT :> "loader") @@ (TXT_EXT :> "raising") @@ (CSV_EXT :> "loader")
        @@ (DOCX_EXT :> "not-callable")
Registries == {REGISTRY_PLAIN, REGISTRY_MISCONFIGURED}

\* the directory trees: a root listing of distinct entries, one of which may be a
\* sub-directory with a listing of its own (one entry shorter, drawn from the
\* files a loader reads, writes a page for or fails on)
SubFileNames == {DATA_CSV, B_PDF, N_TXT}

Trees ==
    LET rootListings == InjSeqs(FileNames \cup {SUB_DIR}, MaxEntries)
        subListings == InjSeqs(SubFileNames, MaxEntries - 1)
    IN  {(RAG_TOP_FOLDER_PATH :> r) : r \in {l \in rootListings : SUB_DIR \notin Range(l)}}
        \cup
        {(RAG_TOP_FOLDER_PATH :> r) @@ (path_join(RAG_TOP_FOLDER_PATH, SUB_DIR) :> s) :
            r \in {l \in rootListings : SUB_DIR \in Range(l)}, s \in subListings}

\* ct.WEB_URL_LOAD_TARGETS
url(i) == <<"u">> \o str_int(i)
WEB_URL_LOAD_TARGETS == [i \in 1..MaxUrls |-> url(i)]

\* WebBaseLoader(web_url).load() when it succeeds: one document, without a page
web_load(web_url) ==
    << Document(<<"w", NL>> \o web_url \o <<NL, "ka", "dakuten", "z">>,
                [source |-> StrV(web_url), title |-> StrV(<<"t", "emoji">>)]) >>

(***************************************************************************)
(* adjust_string                                                           *)
(***************************************************************************)
\* characters that cp932 cannot encode
NOT_CP932 == {"dakuten", "emoji"}

\* unicodedata.normalize('NFC', s): a base character followed by its combining mark
\* composes into one character
normalize_nfc(s) ==
    LET mark(i) == i > 1 /\ s[i] = "dakuten" /\ s[i - 1] = "ka"
        composed == [i \in 1..Len(s) |->
                        IF i < Len(s) /\ s[i] = "ka" /\ s[i + 1] = "dakuten"
                        THEN "ga" ELSE s[i]]
        kept == SelectSeq([i \in 1..Len(s) |-> i], LAMBDA i : ~mark(i))
    IN  [k \in 1..Len(kept) |-> composed[kept[k]]]

\* s.encode("cp932", "ignore").decode("cp932")
cp932_ignore(s) == SelectSeq(s, LAMBDA c : c \notin NOT_CP932)

\* sys.platform.startswith("win")
is_windows(platform) == Len(platform) >= 3 /\ SubSeq(platform, 1, 3) = <<"w", "i", "n">>

WIN32 == <<"w", "i", "n", "3", "2">>
LINUX == <<"l", "i", "n", "u", "x">>
Platforms == {WIN32, LINUX}

adjust_string(s, platform) ==
    IF s.t # "str" THEN s
    ELSE IF is_windows(platform) THEN StrV(cp932_ignore(normalize_nfc(s.v)))
    ELSE s

\* lines 131-134 of initialize_retriever: every document's content and metadata values
adjust_docs(docs, platform) ==
    [i \in 1..Len(docs) |->
        Document(adjust_string(StrV(docs[i].page_content), platform).v,
                 [key \in DOMAIN docs[i].metadata |->
                    adjust_string(docs[i].metadata[key], platform)])]

(***************************************************************************)
(* CharacterTextSplitter(chunk_size, chunk_overlap, separator="\n")        *)
(* The sizes are scaled to the short texts of the model.                   *)
(***************************************************************************)
CHUNK_SIZE == 4
CHUNK_OVERLAP == 1
RETRIEVER_K == 5

\* _join_docs: the pieces joined by the separator and stripped
join_docs(current_doc) == strip(join(current_doc, <<NL>>))

sep_len(current_doc, least) == IF Len(current_doc) > least THEN 1 ELSE 0

\* the inner while loop of _merge_splits: drop pieces from the front
RECURSIVE pop_front(_, _, _)
pop_front(current_doc, total, len) ==
    IF total > CHUNK_OVERLAP
       \/ (total + len + sep_len(current_doc, 0) > CHUNK_SIZE /\ total > 0)
    THEN pop_front(Tail(current_doc),
                   total - (Len(current_doc[1]) + sep_len(current_doc, 1)), len)
    ELSE [current_doc |-> current_doc, total |-> total]

\* _merge_splits: pack the pieces into windows of at most CHUNK_SIZE characters
RECURSIVE merge_splits(_, _, _, _)
merge_splits(splits, docs, current_doc, total) ==
    IF splits = <<>>
    THEN IF join_docs(current_doc) # <<>> THEN Append(docs, join_docs(current_doc)) ELSE docs
    ELSE LET d == Head(splits)
             len == Len(d)
             full == total + len + sep_len(current_doc, 0) > CHUNK_SIZE
                     /\ Len(current_doc) > 0
             docs1 == IF full /\ join_docs(current_doc) # <<>>
                      THEN Append(docs, join_docs(current_doc)) ELSE docs
             kept == IF full THEN pop_front(current_doc, total, len)
                     ELSE [current_doc |-> current_doc, total |-> total]
             current1 == Append(kept.current_doc, d)
         IN  merge_splits(Tail(splits), docs1, current1,
                          kept.total + len + sep_len(current1, 1))

\* split_text: split on the separator, drop empty pieces, merge
split_text(text) ==
    merge_splits(SelectSeq(split(text, NL), LAMBDA piece : piece # <<>>), <<>>, <<>>, 0)

\* variant of final_docs_of that sends every document through the splitter
final_docs_of_all_split(doc) ==
    LET chunks == split_text(doc.page_content)
    IN  [c \in 1..Len(chunks) |-> Document(chunks[c], doc.metadata)]

\* lines 149-170 of initialize_retriever for one document
final_docs_of(doc) ==
    IF get(doc.metadata, "file_type") = StrV(CSV_TYPE)
    THEN <<doc>>
    ELSE LET page_number == get(doc.metadata, "page")
             chunks == split_text(doc.page_content)
         IN  [c \in 1..Len(chunks) |->
                LET new_meta == IF page_number # None
                                THEN [key \in DOMAIN doc.metadata |->
                                        IF key = "page" THEN page_number
                                        ELSE doc.metadata[key]]
                                ELSE doc.metadata
                IN  Document(chunks[c], new_meta)]

\* lines 147-170: the list handed to the index
final_docs(docs) == Flatten([i \in 1..Len(docs) |-> final_docs_of(docs[i])])

(***************************************************************************)
(* file_load                                                               *)
(***************************************************************************)
\* variant of file_extension that looks the extension up as written
file_extension_as_written(path) == splitext_ext(path)

\* line 247: the extension, lower-cased
file_extension(path) == lower(splitext_ext(path))

\* logger.error(...): one record, tagged with the file's path
log_error(lg, kind, path) == Append(lg, [kind |-> kind, path |-> path])

\* variant of load_csv without the try/except: a read failure leaves file_load
load_csv_unguarded(path, docs, lg) ==
    LET r == read_csv(path)
    IN  IF r.raises
        THEN [docs |-> docs, log |-> lg, raised |-> TRUE]
        ELSE [docs |-> Append(docs,
                        Document(synthesize(r.df, basename(path)),
                                 [source |-> StrV(path), page |-> IntV(1),
                                  file_type |-> StrV(CSV_TYPE),
                                  total_rows |-> IntV(len_df(r.df))])),
              log |-> lg, raised |-> FALSE]

\* lines 253-281: the CSV branch; `raised` tells whether an exception leaves file_load
load_csv(path, docs, lg) ==
    LET r == read_csv(path)
    IN  IF r.raises
        THEN [docs |-> docs, log |-> log_error(lg, "csv", path), raised |-> FALSE]
        ELSE [docs |-> Append(docs,
                        Document(synthesize(r.df, basename(path)),
                                 [source |-> StrV(path), page |-> IntV(1),
                                  file_type |-> StrV(CSV_TYPE),
                                  total_rows |-> IntV(len_df(r.df))])),
              log |-> lg, raised |-> FALSE]

\* variant of with_pages that leaves the loader's own page numbers
with_pages_untouched(ext, docs) == docs

\* lines 290-296: the page numbers of PDF and text documents
with_pages(ext, docs) ==
    [i \in 1..Len(docs) |->
        IF ext = PDF_EXT
        THEN Document(docs[i].page_content,
                      [key \in DOMAIN docs[i].metadata \cup {"page"} |->
                         IF key = "page" THEN IntV((i - 1) + 1) ELSE docs[i].metadata[key]])
        ELSE IF ext = TXT_EXT
        THEN Document(docs[i].page_content,
                      [key \in DOMAIN docs[i].metadata \cup {"page"} |->
                         IF key = "page" THEN IntV(1) ELSE docs[i].metadata[key]])
        ELSE docs[i]]

\* lines 284-304: the branch of the registered loaders
load_other(ext, loader_func, path, docs, lg) ==
    IF callable(loader_func)
    THEN LET r == loader_load(loader_func, path)
         IN  IF r.raises
             THEN [docs |-> docs, log |-> log_error(lg, "file", path), raised |-> FALSE]
             ELSE [docs |-> docs \o with_pages(ext, r.docs), log |-> lg, raised |-> FALSE]
    ELSE [docs |-> docs, log |-> log_error(lg, "not-callable", path), raised |-> FALSE]

\* file_load(path, docs_all) under the registry reg: the accumulator and the log after
file_load(reg, path, docs, lg) ==
    LET ext == file_extension(path)
    IN  IF ext \in DOMAIN reg
        THEN IF ext = CSV_EXT
             THEN load_csv(path, docs, lg)
             ELSE load_other(ext, reg[ext], path, docs, lg)
        ELSE [docs |-> docs, log |-> lg, raised |-> FALSE]

(***************************************************************************)
(* recursive_file_check                                                    *)
(***************************************************************************)
\* os.path.isdir(path)
isdir(path) == path \in DOMAIN tree

\* variant of push_children that visits a directory's entries after the pending ones
push_children_last(path, files, pending) ==
    pending \o [i \in 1..Len(files) |-> path_join(path, files[i])]

\* lines 223-229: the calls a directory makes, in listing order, before the calls
\* that were already pending
push_children(path, files, pending) ==
    [i \in 1..Len(files) |-> path_join(path, files[i])] \o pending

(***************************************************************************)
(* Session bootstrap                                                       *)
(***************************************************************************)
has(ss, key) == key \in DOMAIN ss

\* initialize_session_state
initialize_session_state(ss) ==
    IF ~has(ss, "messages")
    THEN ("messages" :> <<>>) @@ ("chat_history" :> <<>>) @@ ss
    ELSE ss

\* initialize_session_id, with uuid the fresh uuid4().hex
initialize_session_id(ss, uuid) ==
    IF ~has(ss, "session_id") THEN ("session_id" :> uuid) @@ ss ELSE ss

\* initialize_logger
initialize_logger(hs) ==
    IF hs # <<>> THEN hs ELSE <<"TimedRotatingFileHandler", "StreamHandler">>

\* variant of retriever_built without the guard
retriever_never_built(ss) == FALSE

\* line 127: the guard of initialize_retriever
retriever_built(ss) == has(ss, "retriever")

(***************************************************************************)
(* _get_secret: Streamlit secrets, then the environment, then the default  *)
(***************************************************************************)
API_KEY == <<"s", "k">>
\* st.secrets: not available (access raises), or a mapping; os.environ: a mapping
SecretStores == {[raises |-> TRUE, has |-> FALSE, value |-> <<>>],
                 [raises |-> FALSE, has |-> FALSE, value |-> <<>>],
                 [raises |-> FALSE, has |-> TRUE, value |-> <<>>],
                 [raises |-> FALSE, has |-> TRUE, value |-> API_KEY]}
Environs == {[has |-> FALSE, value |-> <<>>], [has |-> TRUE, value |-> API_KEY]}

get_secret(secrets, environ, default) ==
    IF ~secrets.raises /\ secrets.has THEN StrV(secrets.value)
    ELSE IF environ.has THEN StrV(environ.value)
    ELSE default

\* `not openai_api_key`
falsy(value) == value = None \/ value = StrV(<<>>)

(***************************************************************************)
(* The state machine of one session                                        *)
(***************************************************************************)
NoOutcome == [result |-> "none", platform |-> <<>>]
EmptyTable == [columns |-> <<>>, rows |-> <<>>]

Init ==
    /\ tree \in Trees
    /\ registry \in Registries
    /\ session_state = <<>>
    /\ handlers = <<>>
    /\ next_uuid = 0
    /\ pc = "idle"
    /\ stack = <<>>
    /\ docs_all = <<>>
    /\ web_docs_all = <<>>
    /\ url_i = 1
    /\ log = <<>>
    /\ visited = <<>>
    /\ fetched = <<>>
    /\ outcome = NoOutcome
    /\ df = EmptyTable
    /\ file_name = <<>>
    /\ content = <<>>

\* initialize(), up to the first step of load_data_sources: the session keys, the
\* logger, and the guard of initialize_retriever
Initialize ==
    /\ pc = "idle"
    /\ LET fresh == ~has(initialize_session_state(session_state), "session_id")
           ss == initialize_session_id(initialize_session_state(session_state),
                                       next_uuid + 1)
       IN  /\ session_state' = ss
           /\ next_uuid' = IF fresh THEN next_uuid + 1 ELSE next_uuid
           /\ handlers' = initialize_logger(handlers)
           /\ IF retriever_built(ss)
              THEN /\ pc' = "idle"
                   /\ stack' = <<>>
                   /\ outcome' = [result |-> "cached", platform |-> <<>>]
              ELSE /\ pc' = "load"
                   /\ stack' = <<RAG_TOP_FOLDER_PATH>>
                   /\ outcome' = NoOutcome
    /\ docs_all' = <<>>
    /\ web_docs_all' = <<>>
    /\ url_i' = 1
    /\ log' = <<>>
    /\ visited' = <<>>
    /\ fetched' = <<>>
    /\ UNCHANGED <<tree, registry, df, file_name, content>>

\* recursive_file_check on a directory
RecursiveFileCheck ==
    /\ pc = "load"
    /\ stack # <<>>
    /\ isdir(Head(stack))
    /\ stack' = push_children(Head(stack), tree[Head(stack)], Tail(stack))
    /\ UNCHANGED <<tree, registry, session_state, handlers, next_uuid, pc, docs_all,
                   web_docs_all, url_i, log, visited, fetched, outcome,
                   df, file_name, content>>

\* recursive_file_check on a file: file_load.  An exception that left file_load would
\* leave every caller up to initialize().
FileLoad ==
    /\ pc = "load"
    /\ stack # <<>>
    /\ ~isdir(Head(stack))
    /\ LET r == file_load(registry, Head(stack), docs_all, log)
       IN  /\ docs_all' = r.docs
           /\ log' = r.log
           /\ IF r.raised
              THEN /\ pc' = "idle"
                   /\ outcome' = [result |-> "file_error", platform |-> <<>>]
              ELSE UNCHANGED <<pc, outcome>>
    /\ visited' = Append(visited, Head(stack))
    /\ stack' = Tail(stack)
    /\ UNCHANGED <<tree, registry, session_state, handlers, next_uuid,
                   web_docs_all, url_i, fetched, df, file_name, content>>

\* one round of the loop of load_data_sources over WEB_URL_LOAD_TARGETS; a failing
\* loader.load() is not caught anywhere and ends initialize()
FetchWeb ==
    /\ pc = "load"
    /\ stack = <<>>
    /\ url_i <= Len(WEB_URL_LOAD_TARGETS)
    /\ \E ok \in BOOLEAN :
         /\ fetched' = Append(fetched, [url |-> WEB_URL_LOAD_TARGETS[url_i], ok |-> ok])
         /\ IF ok
            THEN /\ web_docs_all' = web_docs_all \o web_load(WEB_URL_LOAD_TARGETS[url_i])
                 /\ url_i' = url_i + 1
                 /\ UNCHANGED <<pc, outcome>>
            ELSE /\ pc' = "idle"
                 /\ outcome' = [result |-> "fetch_error", platform |-> <<>>]
                 /\ UNCHANGED <<web_docs_all, url_i>>
    /\ UNCHANGED <<tree, registry, session_state, handlers, next_uuid, stack, docs_all,
                   log, visited, df, file_name, content>>

\* the rest of load_data_sources (line 208) and of initialize_retriever: normalize,
\* resolve the key, chunk, build the index, store the retriever
BuildRetriever ==
    /\ pc = "load"
    /\ stack = <<>>
    /\ url_i > Len(WEB_URL_LOAD_TARGETS)
    /\ \E platform \in Platforms, secrets \in SecretStores, environ \in Environs :
         LET docs == adjust_docs(docs_all \o web_docs_all, platform)
             openai_api_key == get_secret(secrets, environ, None)
         IN  /\ docs_all' = docs
             /\ IF falsy(openai_api_key)
                THEN /\ outcome' = [result |-> "missing_key", platform |-> platform]
                     /\ UNCHANGED session_state
                ELSE /\ outcome' = [result |-> "ok", platform |-> platform]
                     /\ session_state' =
                            ("retriever" :> [docs |-> final_docs(docs), k |-> RETRIEVER_K])
                            @@ session_state
    /\ pc' = "idle"
    /\ UNCHANGED <<tree, registry, handlers, next_uuid, stack, web_docs_all, url_i,
                   log, visited, fetched, df, file_name, content>>

Next == Initialize \/ RecursiveFileCheck \/ FileLoad \/ FetchWeb \/ BuildRetriever

Spec == Init /\ [][Next]_vars

(***************************************************************************)
(* The synthesizers on their own: a table as pd.read_csv returns it, then  *)
(* lines 258-265 of file_load applied to it                                *)
(***************************************************************************)
NameCells == {NaN, Cell(<<" ">>), Cell(<<"a">>)}
DeptCells == {NaN, Cell(HR_DEPT), Cell(SALES_DEPT)}

Tables ==
    {[columns |-> <<NAME_COLUMN, DEPT_COLUMN>>, rows |-> rs] :
        rs \in SeqsUpTo({<<n, c>> : n \in NameCells, c \in DeptCells}, MaxRows)}
    \cup
    {[columns |-> <<NAME_COLUMN>>, rows |-> rs] :
        rs \in SeqsUpTo({<<n>> : n \in NameCells}, MaxRows)}

InitSynth ==
    /\ df \in Tables
    /\ file_name \in {ROSTER_CSV, DATA_CSV}
    /\ content = <<>>
    /\ tree = (RAG_TOP_FOLDER_PATH :> <<>>)
    /\ registry = REGISTRY_PLAIN
    /\ session_state = <<>>
    /\ handlers = <<>>
    /\ next_uuid = 0
    /\ pc = "idle"
    /\ stack = <<>>
    /\ docs_all = <<>>
    /\ web_docs_all = <<>>
    /\ url_i = 1
    /\ log = <<>>
    /\ visited = <<>>
    /\ fetched = <<>>
    /\ outcome = NoOutcome

\* lines 258-265: choose the synthesizer by the file name and build the passage
Synthesize ==
    /\ content = <<>>
    /\ content' = synthesize(df, file_name)
    /\ UNCHANGED <<df, file_name>>
    /\ UNCHANGED pipeVars

NextSynth == Synthesize

SpecSynth == InitSynth /\ [][NextSynth]_vars

(***************************************************************************)
(* Reading a passage back: its lines and the numbers printed in them       *)
(***************************************************************************)
lines_of(text) == split(text, NL)

digit_value(c) == CHOOSE v \in 0..9 : Digits[v + 1] = c

RECURSIVE parse_int(_)
parse_int(ds) ==
    IF ds = <<>> THEN 0
    ELSE 10 * parse_int(SubSeq(ds, 1, Len(ds) - 1)) + digit_value(ds[Len(ds)])

\* the department group headers of a roster passage: "# <dept>bumon (<n>mei)"
group_headers(text) == SelectSeq(lines_of(text), LAMBDA l : l # <<>> /\ l[1] = "#")
header_count(l) == parse_int(SubSeq(l, find(l, "(") + 1, find(l, "mei") - 1))
header_dept(l) == SubSeq(l, 3, find(l, "bumon") - 1)

\* the headcount printed in the second line of a roster passage
printed_headcount(text) ==
    LET l == lines_of(text)[2]
    IN  parse_int(SubSeq(l, 4, find(l, "mei no juugyouin jouhou") - 1))

\* the numbers on the row lines of a generic passage (the lines after the data title)
row_numbers(text) ==
    LET ls == lines_of(text)
        title == CHOOSE i \in 1..Len(ls) : ls[i] = <<"[[data-naiyou]]">>
        rowLines == SubSeq(ls, title + 1, Len(ls))
    IN  [k \in 1..Len(rowLines) |-> parse_int(SubSeq(rowLines[k], 1, find(rowLines[k], ".") - 1))]

\* a cell that is non-null and not blank, stated on the table alone
Filled(cell) == ~cell.na /\ \E k \in 1..Len(cell.s) : cell.s[k] \notin Whitespace

\* the 1-based positions of the rows that have a filled cell, ascending
FilledRows(d) ==
    SelectSeq([i \in 1..Len(d.rows) |-> i],
              LAMBDA i : \E j \in 1..Len(d.columns) : Filled(d.rows[i][j]))

\* the department cells of a table that has the department column
DeptColumnIndex(d) == CHOOSE j \in 1..Len(d.columns) : d.columns[j] = DEPT_COLUMN
NonNullDeptRows(d) == {i \in 1..Len(d.rows) : ~d.rows[i][DeptColumnIndex(d)].na}
DistinctDepts(d) == {d.rows[i][DeptColumnIndex(d)].s : i \in NonNullDeptRows(d)}

RosterDone == content # <<>> /\ is_roster_name(file_name) /\ DEPT_COLUMN \in Range(df.columns)
GenericDone == content # <<>> /\ ~is_roster_name(file_name)

\* C8 (as stated): one group per distinct non-null department, and the counts in the
\* group headers sum to the table's total row count, the headcount of the header
C8_CountsSumToTotal ==
    RosterDone =>
        /\ Len(group_headers(content)) = Cardinality(DistinctDepts(df))
        /\ SumSeq([g \in 1..Len(group_headers(content)) |->
                      header_count(group_headers(content)[g])]) = Len(df.rows)
        /\ printed_headcount(content) = Len(df.rows)

\* C8 (amended): one group per distinct non-null department, each header counting the
\* rows of that department; the counts sum to the number of rows whose department is
\* non-null, which is the printed total headcount exactly when no department is null
C8_CountsSumToNonNull ==
    RosterDone =>
        /\ Len(group_headers(content)) = Cardinality(DistinctDepts(df))
        /\ \A g \in 1..Len(group_headers(content)) :
             LET h == group_headers(content)[g]
             IN  /\ header_dept(h) \in DistinctDepts(df)
                 /\ header_count(h) =
                      Cardinality({i \in NonNullDeptRows(df) :
                                     df.rows[i][DeptColumnIndex(df)].s = header_dept(h)})
        /\ SumSeq([g \in 1..Len(group_headers(content)) |->
                      header_count(group_headers(content)[g])])
             = Cardinality(NonNullDeptRows(df))
        /\ printed_headcount(content) = Len(df.rows)

\* C8 witness: a synthesized roster with two departments and a row without department
C8_Witness ==
    /\ RosterDone
    /\ Cardinality(DistinctDepts(df)) = 2
    /\ Cardinality(NonNullDeptRows(df)) = 2
    /\ Len(df.rows) = 3
    /\ Len(group_headers(content)) = 2

\* C9 (as stated): empty rows give no line and the row lines are numbered 1, 2, ..., k
C9_Contiguous ==
    GenericDone =>
        /\ Len(row_numbers(content)) = Len(FilledRows(df))
        /\ row_numbers(content) = [k \in 1..Len(row_numbers(content)) |-> k]

\* C9 (amended): empty rows give no line and each row line carries the 1-based
\* position of its row in the table, so the numbers increase and skip the empty rows
C9_NumberedByPosition ==
    GenericDone => row_numbers(content) = FilledRows(df)

\* C9 witness: a generic passage for a table whose empty row precedes a filled one
C9_Witness ==
    /\ GenericDone
    /\ Len(df.rows) >= 2
    /\ FilledRows(df) = <<2>>

(***************************************************************************)
(* Reading the pipeline's state back                                       *)
(***************************************************************************)
source_of(doc) == doc.metadata.source.v
sources(docs) == [i \in 1..Len(docs) |-> source_of(docs[i])]
DocsFrom(docs, p) == SelectSeq(docs, LAMBDA doc : source_of(doc) = p)
LogsFor(p) == SelectSeq(log, LAMBDA e : e.path = p)

\* s without the repetitions of an element next to itself
collapse(s) ==
    LET kept == SelectSeq([i \in 1..Len(s) |-> i], LAMBDA i : i = 1 \/ s[i] # s[i - 1])
    IN  [k \in 1..Len(kept) |-> s[kept[k]]]

IsPrefix(a, b) == Len(a) <= Len(b) /\ SubSeq(b, 1, Len(a)) = a

\* the first position of needle in hay, 0 when it does not occur
position(hay, needle) ==
    IF contains(hay, needle)
    THEN CHOOSE i \in 1..Len(hay) :
            /\ SubSeq(hay, i, i + Len(needle) - 1) = needle
            /\ \A j \in 1..(i - 1) : SubSeq(hay, j, j + Len(needle) - 1) # needle
    ELSE 0

\* the files of the tree, depth first, each directory in listing order
TreeFiles ==
    LET top == tree[RAG_TOP_FOLDER_PATH]
    IN  Flatten([i \in 1..Len(top) |->
            LET q == path_join(RAG_TOP_FOLDER_PATH, top[i])
            IN  IF q \in DOMAIN tree
                THEN [j \in 1..Len(tree[q]) |-> path_join(q, tree[q][j])]
                ELSE <<q>>])

\* what the disk and the registry say about a file, whatever file_load does
Registered(p) == lower(splitext_ext(p)) \in DOMAIN registry
ExtractionFails(p) ==
    /\ Registered(p)
    /\ IF lower(splitext_ext(p)) = CSV_EXT
       THEN read_csv(p).raises
       ELSE \/ registry[lower(splitext_ext(p))] = "not-callable"
            \/ loader_load(registry[lower(splitext_ext(p))], p).raises
ExtractionSucceeds(p) == Registered(p) /\ ~ExtractionFails(p)
ExpectedCount(p) ==
    IF lower(splitext_ext(p)) = CSV_EXT THEN 1
    ELSE Len(loader_load(registry[lower(splitext_ext(p))], p).docs)

\* the ingestion of the current call has started (and perhaps ended)
InCall == pc = "load" \/ outcome.result \in {"ok", "missing_key", "fetch_error", "file_error"}
CallEnded == pc = "idle" /\ outcome.result \in {"ok", "missing_key", "fetch_error", "file_error"}
WalkOver == InCall /\ stack = <<>> /\ outcome.result # "file_error"
Index == session_state["retriever"].docs

\* C1: a file whose extraction fails gives exactly one error record with its path and
\* no document, nothing is raised to the caller of file_load, and every other file of
\* the tree is still processed, the loadable ones with their documents appended
C1_FailureIsolated ==
    /\ outcome.result # "file_error"
    /\ \A i \in 1..Len(visited) :
          ExtractionFails(visited[i]) =>
              /\ Len(LogsFor(visited[i])) = 1
              /\ DocsFrom(docs_all, visited[i]) = <<>>
    /\ WalkOver =>
          /\ visited = TreeFiles
          /\ \A i \in 1..Len(TreeFiles) :
                ExtractionSucceeds(TreeFiles[i]) =>
                    Len(DocsFrom(docs_all, TreeFiles[i])) = ExpectedCount(TreeFiles[i])

\* C1 witness: the walk is over, a file failed and a file visited after it was loaded
C1_Witness ==
    /\ WalkOver
    /\ \E i, j \in 1..Len(visited) :
          /\ i < j
          /\ ExtractionFails(visited[i])
          /\ Len(LogsFor(visited[i])) = 1
          /\ DocsFrom(docs_all, visited[j]) # <<>>

\* C2 (as stated): a failing fetch does not abort the others: when the call ends
\* every configured URL was fetched, load_data_sources returned, and the returned list
\* holds the documents of the loaded files and of every URL whose fetch succeeded
C2_FetchIsolated ==
    CallEnded =>
        /\ outcome.result \in {"ok", "missing_key"}
        /\ [i \in 1..Len(fetched) |-> fetched[i].url] = WEB_URL_LOAD_TARGETS
        /\ \A i \in 1..Len(fetched) :
              fetched[i].ok => DocsFrom(docs_all, fetched[i].url) # <<>>
        /\ \A i \in 1..Len(visited) :
              ExtractionSucceeds(visited[i]) => DocsFrom(docs_all, visited[i]) # <<>>

\* C3 (as stated): a run that ends in the missing-key error has done no ingestion work:
\* no file was handed to file_load and no URL was fetched
C3_AbortBeforeIngestion ==
    outcome.result = "missing_key" => visited = <<>> /\ fetched = <<>>

\* C4: every CSV that was read gives one Document with file_type csv, page 1 and
\* total_rows the row count; the index receives it exactly once, whole, its content the
\* normalized synthesized passage, however long the passage is
C4_CsvWhole ==
    \A i \in 1..Len(visited) :
        LET p == visited[i]
        IN  (lower(splitext_ext(p)) = CSV_EXT /\ ExtractionSucceeds(p)) =>
               /\ Len(DocsFrom(docs_all, p)) = 1
               /\ DocsFrom(docs_all, p)[1].metadata =
                     [source |-> StrV(p), page |-> IntV(1), file_type |-> StrV(CSV_TYPE),
                      total_rows |-> IntV(Len(read_csv(p).df.rows))]
               /\ outcome.result = "ok" =>
                     /\ Len(DocsFrom(Index, p)) = 1
                     /\ DocsFrom(Index, p)[1].metadata = DocsFrom(docs_all, p)[1].metadata
                     /\ DocsFrom(Index, p)[1].page_content =
                           adjust_string(StrV(synthesize(read_csv(p).df, basename(p))),
                                         outcome.platform).v

\* C4 witness: on Windows the index was built with a roster passage far longer than
\* CHUNK_SIZE, holding a character that cp932 cannot encode
C4_Witness ==
    /\ outcome.result = "ok"
    /\ outcome.platform = WIN32
    /\ \E i \in 1..Len(visited) :
          /\ basename(visited[i]) = ROSTER_CSV
          /\ Len(DocsFrom(Index, visited[i])) = 1
          /\ Len(DocsFrom(Index, visited[i])[1].page_content) > CHUNK_SIZE
          /\ DocsFrom(Index, visited[i])[1].page_content
               # synthesize(ROSTER_TABLE, ROSTER_CSV)

\* C5: a file whose lower-cased extension is not registered adds no document and no
\* error record and leaves the accumulator as it was; the lookup ignores case, so a
\* file with an upper- or mixed-case registered extension is extracted like any other
C5_UnregisteredSkipped ==
    /\ \A i \in 1..Len(visited) :
          LET p == visited[i]
          IN  /\ ~Registered(p) => DocsFrom(docs_all, p) = <<>> /\ LogsFor(p) = <<>>
              /\ (Registered(p) /\ splitext_ext(p) # lower(splitext_ext(p))) =>
                    IF ExtractionFails(p)
                    THEN Len(LogsFor(p)) = 1 /\ DocsFrom(docs_all, p) = <<>>
                    ELSE LogsFor(p) = <<>> /\ Len(DocsFrom(docs_all, p)) = ExpectedCount(p)
    /\ \A k \in 1..Len(docs_all) :
          \/ source_of(docs_all[k]) \in Range(WEB_URL_LOAD_TARGETS)
          \/ \E i \in 1..Len(visited) :
                visited[i] = source_of(docs_all[k]) /\ Registered(visited[i])

\* C5 witness: an unregistered .docx was skipped and a file with a mixed- or upper-case
\* extension was loaded
C5_Witness ==
    /\ WalkOver
    /\ \E i, j \in 1..Len(visited) :
          /\ basename(visited[i]) = C_DOCX
          /\ ~Registered(visited[i])
          /\ splitext_ext(visited[j]) # lower(splitext_ext(visited[j]))
          /\ DocsFrom(docs_all, visited[j]) # <<>>

\* the page of a document, -1 when it has none
page_of(doc) == IF "page" \in DOMAIN doc.metadata THEN doc.metadata.page.v ELSE -1

\* C6: files are visited depth first in listing order; the accumulator holds the
\* documents of the files in visiting order (so it only grows at its end), the web
\* documents follow in URL order, and the index receives the chunks in that order, the
\* chunks of one document together and in the order of the text
C6_Order ==
    /\ InCall => IsPrefix(visited, TreeFiles)
    /\ (pc = "load" \/ outcome.result = "fetch_error") =>
          /\ collapse(sources(docs_all)) = SelectSeq(visited, ExtractionSucceeds)
          /\ sources(web_docs_all) =
                [i \in 1..Len(SelectSeq(fetched, LAMBDA f : f.ok)) |->
                    SelectSeq(fetched, LAMBDA f : f.ok)[i].url]
    /\ outcome.result \in {"ok", "missing_key"} =>
          collapse(sources(docs_all))
             = SelectSeq(TreeFiles, ExtractionSucceeds) \o WEB_URL_LOAD_TARGETS
    /\ outcome.result = "ok" =>
          /\ collapse(sources(Index))
                = SelectSeq(TreeFiles, ExtractionSucceeds) \o WEB_URL_LOAD_TARGETS
          /\ \A k \in 1..(Len(Index) - 1) :
                source_of(Index[k]) = source_of(Index[k + 1]) =>
                   /\ page_of(Index[k]) <= page_of(Index[k + 1])
                   /\ page_of(Index[k]) = page_of(Index[k + 1]) =>
                         \E d \in Range(docs_all) :
                            /\ d.metadata = Index[k].metadata
                            /\ 0 < position(d.page_content, Index[k].page_content)
                            /\ position(d.page_content, Index[k].page_content)
                                 < position(d.page_content, Index[k + 1].page_content)

\* C6 witness: the index was built from a file inside a sub-directory that is listed
\* before a file of the root, both with documents, followed by the web documents
C6_Witness ==
    /\ outcome.result = "ok"
    /\ Len(TreeFiles) >= 2
    /\ Len(TreeFiles[1]) > Len(TreeFiles[2])
    /\ ExtractionSucceeds(TreeFiles[1])
    /\ ExtractionSucceeds(TreeFiles[2])
    /\ \E k \in 1..(Len(Index) - 1) :
          source_of(Index[k]) = source_of(Index[k + 1])
          /\ page_of(Index[k]) = page_of(Index[k + 1])

\* C7: a chunk of a non-CSV document has its parent's metadata, page included; a chunk
\* of a PDF carries the 1-based number of the page its text comes from, a chunk of a
\* .txt file carries page 1
C7_ChunkMetadata ==
    outcome.result = "ok" =>
        \A k \in 1..Len(Index) :
            get(Index[k].metadata, "file_type") # StrV(CSV_TYPE) =>
               /\ \E d \in Range(docs_all) :
                     /\ d.metadata = Index[k].metadata
                     /\ contains(d.page_content, Index[k].page_content)
               /\ lower(splitext_ext(source_of(Index[k]))) = PDF_EXT =>
                     \E n \in 1..Len(PDF_PAGES) :
                        /\ Index[k].metadata.page = IntV(n)
                        /\ contains(adjust_string(StrV(PDF_PAGES[n]), outcome.platform).v,
                                    Index[k].page_content)
               /\ lower(splitext_ext(source_of(Index[k]))) = TXT_EXT =>
                     get(Index[k].metadata, "page") = IntV(1)

\* C7 witness: the index holds a chunk of the second page of a PDF and a chunk of a
\* text file
C7_Witness ==
    /\ outcome.result = "ok"
    /\ \E k, m \in 1..Len(Index) :
          /\ lower(splitext_ext(source_of(Index[k]))) = PDF_EXT
          /\ page_of(Index[k]) = 2
          /\ lower(splitext_ext(source_of(Index[m]))) = TXT_EXT

\* C10: once a retriever is stored, a step (a later initialize()) walks nothing,
\* fetches nothing, builds nothing and leaves the session state as it is; a call that
\* failed stored no retriever, and the next call starts the ingestion from the root
C10_BuildOnce ==
    [][ /\ has(session_state, "retriever") =>
              /\ session_state' = session_state
              /\ pc' = "idle"
              /\ visited' = <<>> /\ fetched' = <<>> /\ docs_all' = <<>>
        /\ (pc = "idle" /\ outcome.result \in {"missing_key", "fetch_error"}) =>
              /\ ~has(session_state, "retriever")
              /\ pc' = "load"
              /\ stack' = <<RAG_TOP_FOLDER_PATH>>
              /\ session_state'["session_id"] = session_state["session_id"] ]_vars

\* C10 witness: a call found the stored retriever and returned
C10_Witness ==
    /\ outcome.result = "cached"
    /\ has(session_state, "retriever")
    /\ pc = "idle"

====
